---- MODULE Spec2Model ----
(***************************************************************************)
(* The statement-text parser of statement2csv (src/src/server/r2.ts):      *)
(* parseDate, parseAmount and parseStatementText.  Lines and tokens are    *)
(* TLA+ strings and the regular expressions of the source are matched      *)
(* character by character.  Amounts are integers in hundredths (the amount *)
(* pattern always carries two decimals); a null result is <<>> and a       *)
(* number n is <<n>>; a null string (date, pending candidate) is "".       *)
(***************************************************************************)
EXTENDS Integers, Sequences, FiniteSets, TLC

(***************************************************************************)
(* Bounds of the model.                                                    *)
(***************************************************************************)
\* the longest document, in lines
MaxLines == 3

(***************************************************************************)
(* Characters and the character classes of the regular expressions.        *)
(***************************************************************************)
Ch(s, i) == IF i >= 1 /\ i <= Len(s) THEN SubSeq(s, i, i) ELSE ""

\* the characters a..b of s, the range cut to the string as slice cuts it
Sub(s, a, b) ==
  LET lo == IF a < 1 THEN 1 ELSE a
      hi == IF b > Len(s) THEN Len(s) ELSE b
  IN IF lo > hi THEN "" ELSE SubSeq(s, lo, hi)

DigitChars == "0123456789"
LowerAlpha == "abcdefghijklmnopqrstuvwxyz"
UpperAlpha == "ABCDEFGHIJKLMNOPQRSTUVWXYZ"

CharsOf(str) == {Ch(str, i) : i \in 1..Len(str)}

\* \d
Digit == CharsOf(DigitChars)
LowerLetter == CharsOf(LowerAlpha)
UpperLetter == CharsOf(UpperAlpha)
\* [A-Za-z]
Letter == LowerLetter \cup UpperLetter
\* \w, the class \b is defined by
WordChar == Digit \cup Letter \cup {"_"}
\* \s
Space == {" ", "\t", "\n", "\r"}
\* [/.-]
DateSep == {"/", ".", "-"}
\* [\d,]
DigitOrComma == Digit \cup {","}

IndexIn(str, c) == CHOOSE i \in 1..Len(str) : Ch(str, i) = c

DigitVal(c) == IndexIn(DigitChars, c) - 1

\* the length of the longest run of characters of class cls that starts at i
RunLen(s, i, cls) ==
  IF i < 1 \/ i > Len(s) THEN 0
  ELSE (CHOOSE j \in i..(Len(s) + 1) :
          /\ Ch(s, j) \notin cls
          /\ \A k \in i..(j - 1) : Ch(s, k) \in cls) - i

\* f[lo] \o ... \o f[hi], for a function f from positions to strings
RECURSIVE ConcatRange(_, _, _)
ConcatRange(f, lo, hi) ==
  IF lo > hi THEN ""
  ELSE IF lo = hi THEN f[lo]
  ELSE ConcatRange(f, lo, (lo + hi) \div 2)
         \o ConcatRange(f, ((lo + hi) \div 2) + 1, hi)

Rest(s, i) == Sub(s, i, Len(s))

Contains(s, c) == \E i \in 1..Len(s) : Ch(s, i) = c

UpperCh(c) == IF c \in LowerLetter THEN Ch(UpperAlpha, IndexIn(LowerAlpha, c)) ELSE c
LowerCh(c) == IF c \in UpperLetter THEN Ch(LowerAlpha, IndexIn(UpperAlpha, c)) ELSE c

toUpperCase(s) == ConcatRange([i \in 1..Len(s) |-> UpperCh(Ch(s, i))], 1, Len(s))

toLowerCase(s) == ConcatRange([i \in 1..Len(s) |-> LowerCh(Ch(s, i))], 1, Len(s))

\* String.prototype.trim
trim(s) ==
  LET lead == RunLen(s, 1, Space)
      last == IF lead = Len(s) THEN 0
              ELSE CHOOSE j \in 1..Len(s) :
                     /\ Ch(s, j) \notin Space
                     /\ \A k \in (j + 1)..Len(s) : Ch(s, k) \in Space
  IN Sub(s, lead + 1, last)

\* Number(...) of a string of decimal digits
RECURSIVE Number(_)
Number(ds) ==
  IF ds = "" THEN 0
  ELSE 10 * Number(Sub(ds, 1, Len(ds) - 1)) + DigitVal(Ch(ds, Len(ds)))

\* String(n) of a natural number
RECURSIVE String(_)
String(n) ==
  IF n < 10 THEN Ch(DigitChars, n + 1)
  ELSE String(n \div 10) \o Ch(DigitChars, (n % 10) + 1)

\* String.prototype.padStart(width, "0")
RECURSIVE padStart(_, _)
padStart(s, width) == IF Len(s) >= width THEN s ELSE padStart("0" \o s, width)

(***************************************************************************)
(* Regular expressions.  A pattern is a sequence of items, each "between   *)
(* lo and hi characters of class c"; an item takes as many characters as   *)
(* it can, which is what the regular expressions of the source do: where   *)
(* two neighbouring items could share a character, giving one back never   *)
(* lets the rest match.  An alternation, or an optional group, is a        *)
(* sequence of patterns tried in order.                                    *)
(***************************************************************************)
\* hi < lo: no upper limit
Rep(c, lo, hi) == [c |-> c, lo |-> lo, hi |-> hi]
One(c) == Rep(c, 1, 1)
Opt(c) == Rep(c, 0, 1)
Plus(c) == Rep(c, 1, 0)
Star(c) == Rep(c, 0, -1)

\* a literal under the i flag
Lit(str) == [k \in 1..Len(str) |-> One({LowerCh(Ch(str, k)), UpperCh(Ch(str, k))})]

NoMatch == <<-1>>

Take(run, item) == IF item.hi >= item.lo /\ run > item.hi THEN item.hi ELSE run

Prepend(take, rest) == IF rest = NoMatch THEN NoMatch ELSE <<take>> \o rest

\* items[k..] matched at position i of s: the length each item took, or NoMatch
RECURSIVE MatchItems(_, _, _, _)
MatchTaken(s, i, items, k, take) ==
  IF take < items[k].lo THEN NoMatch
  ELSE Prepend(take, MatchItems(s, i + take, items, k + 1))

MatchItems(s, i, items, k) ==
  IF k > Len(items) THEN <<>>
  ELSE MatchTaken(s, i, items, k, Take(RunLen(s, i, items[k].c), items[k]))

Match(s, i, items) == MatchItems(s, i, items, 1)

\* the characters the first k items of match m took
RECURSIVE SumTo(_, _)
SumTo(m, k) == IF k = 0 THEN 0 ELSE m[k] + SumTo(m, k - 1)

Total(m) == SumTo(m, Len(m))

\* what item k of match m, made at position i of s, took
Group(s, i, m, k) == Sub(s, i + SumTo(m, k - 1), i + SumTo(m, k) - 1)

\* ^pattern$
Matches(s, m) == m # NoMatch /\ Total(m) = Len(s)

\* the first of the patterns alts[a..] that matches at position i, 0 for none
RECURSIVE FirstAlt(_, _, _, _)
FirstAlt(s, i, alts, a) ==
  IF a > Len(alts) THEN 0
  ELSE IF Match(s, i, alts[a]) # NoMatch THEN a
  ELSE FirstAlt(s, i, alts, a + 1)

\* the length alternative a of alts matches at position i, 0 for a = 0
AltLen(s, i, alts, a) == IF a = 0 THEN 0 ELSE Total(Match(s, i, alts[a]))

\* regex test /\bWORD\b/ at position i of s
WordAt(s, i, word) ==
  /\ i + Len(word) - 1 <= Len(s)
  /\ Sub(s, i, i + Len(word) - 1) = word
  /\ i >= 1
  /\ Ch(s, i - 1) \notin WordChar
  /\ Ch(s, i + Len(word)) \notin WordChar

\* regex test /\bWORD\b/ anywhere in s
HasWord(s, word) ==
  \E i \in 1..(Len(s) - Len(word) + 1) : WordAt(s, i, word)

(***************************************************************************)
(* Dates.                                                                  *)
(***************************************************************************)
\* the year new Date().getUTCFullYear() gives
CurrentYear == 2026

MONTHS ==
  << <<"jan", 1>>, <<"january", 1>>, <<"feb", 2>>, <<"february", 2>>,
     <<"mar", 3>>, <<"march", 3>>, <<"apr", 4>>, <<"april", 4>>, <<"may", 5>>,
     <<"jun", 6>>, <<"june", 6>>, <<"jul", 7>>, <<"july", 7>>, <<"aug", 8>>,
     <<"august", 8>>, <<"sep", 9>>, <<"sept", 9>>, <<"september", 9>>,
     <<"oct", 10>>, <<"october", 10>>, <<"nov", 11>>, <<"november", 11>>,
     <<"dec", 12>>, <<"december", 12>> >>

\* MONTHS[name], 0 standing for undefined
MonthOf(name) ==
  IF \E k \in 1..Len(MONTHS) : MONTHS[k][1] = name
  THEN MONTHS[CHOOSE k \in 1..Len(MONTHS) : MONTHS[k][1] = name][2]
  ELSE 0

IsLeapYear(y) == (y % 4 = 0 /\ y % 100 # 0) \/ y % 400 = 0

DaysInMonth(y, m) ==
  IF m = 2 THEN (IF IsLeapYear(y) THEN 29 ELSE 28)
  ELSE IF m \in {4, 6, 9, 11} THEN 30 ELSE 31

\* Date.UTC reads a year 0..99 as 1900..1999
utcYear(year) == IF year >= 0 /\ year <= 99 THEN 1900 + year ELSE year

\* new Date(Date.UTC(year, monthIndex, day)) for monthIndex in 0..11 and day
\* in 1..31, as getUTCFullYear, getUTCMonth and getUTCDate read it: a day
\* beyond the month's end rolls over into the next month
DateUTC(year, monthIndex, day) ==
  IF day <= DaysInMonth(utcYear(year), monthIndex + 1)
  THEN [fullYear |-> utcYear(year), month |-> monthIndex, date |-> day]
  ELSE IF monthIndex = 11
  THEN [fullYear |-> utcYear(year) + 1, month |-> 0,
        date |-> day - DaysInMonth(utcYear(year), 12)]
  ELSE [fullYear |-> utcYear(year), month |-> monthIndex + 1,
        date |-> day - DaysInMonth(utcYear(year), monthIndex + 1)]

formatIso(year, month, day) ==
  padStart(String(year), 4) \o "-" \o padStart(String(month), 2)
    \o "-" \o padStart(String(day), 2)

roundTrips(dt, year, month, day) ==
  dt.fullYear = year /\ dt.month = month - 1 /\ dt.date = day

\* toIsoDate without the round trip through Date
toIsoDateUnchecked(year, month, day) ==
  IF month < 1 \/ month > 12 \/ day < 1 \/ day > 31 THEN ""
  ELSE formatIso(year, month, day)

toIsoDate(year, month, day) ==
  IF month < 1 \/ month > 12 \/ day < 1 \/ day > 31 THEN ""
  ELSE IF ~roundTrips(DateUTC(year, month - 1, day), year, month, day) THEN ""
  ELSE formatIso(year, month, day)

normalizeYear(year) ==
  IF year < 100 THEN (IF year >= 70 THEN 1900 + year ELSE 2000 + year)
  ELSE year

\* /^(\d{4})[/.-](\d{1,2})[/.-](\d{1,2})$/
YMD == <<Rep(Digit, 4, 4), One(DateSep), Rep(Digit, 1, 2), One(DateSep),
         Rep(Digit, 1, 2)>>
\* /^(\d{1,2})[/.-](\d{1,2})[/.-](\d{2,4})$/
DMY == <<Rep(Digit, 1, 2), One(DateSep), Rep(Digit, 1, 2), One(DateSep),
         Rep(Digit, 2, 4)>>
\* /^(\d{1,2})\s+([A-Za-z]{3,9})\s+(\d{2,4})$/
DAY_MON_YEAR == <<Rep(Digit, 1, 2), Plus(Space), Rep(Letter, 3, 9), Plus(Space),
                  Rep(Digit, 2, 4)>>
\* /^(\d{1,2})\s+([A-Za-z]{3,9})$/
DAY_MON == <<Rep(Digit, 1, 2), Plus(Space), Rep(Letter, 3, 9)>>
\* /^([A-Za-z]{3,9})\s+(\d{1,2})(?:,?\s+(\d{2,4}))?$/, the group taken
MON_DAY_YEAR == <<Rep(Letter, 3, 9), Plus(Space), Rep(Digit, 1, 2), Opt({","}),
                  Plus(Space), Rep(Digit, 2, 4)>>
\* the same, the group left out
MON_DAY == <<Rep(Letter, 3, 9), Plus(Space), Rep(Digit, 1, 2)>>

\* the branch of parseDate for a numeric D/M/Y date: lines 91-98
parseDateNumeric(first, second, year, preference) ==
  IF first > 12 THEN toIsoDate(year, second, first)
  ELSE IF second > 12 THEN toIsoDate(year, first, second)
  ELSE IF preference = "day-first" THEN toIsoDate(year, second, first)
  ELSE IF preference = "month-first" THEN toIsoDate(year, first, second)
  ELSE toIsoDate(year, first, second)

\* a date of a named month: if (!month) return null
namedMonthDate(year, month, day) ==
  IF month = 0 THEN "" ELSE toIsoDate(year, month, day)

NumGroup(value, m, k) == Number(Group(value, 1, m, k))

MonthGroup(value, m, k) == MonthOf(toLowerCase(Group(value, 1, m, k)))

\* parseDate on the trimmed value, given what each of its patterns matches
parseDateMatched(value, preference, ymd, dmy, dayMonYear, dayMon, monDayYear, monDay) ==
  IF Matches(value, ymd)
  THEN toIsoDate(NumGroup(value, ymd, 1), NumGroup(value, ymd, 3),
                 NumGroup(value, ymd, 5))
  ELSE IF Matches(value, dmy)
  THEN parseDateNumeric(NumGroup(value, dmy, 1), NumGroup(value, dmy, 3),
                        normalizeYear(NumGroup(value, dmy, 5)), preference)
  ELSE IF Matches(value, dayMonYear)
  THEN namedMonthDate(normalizeYear(NumGroup(value, dayMonYear, 5)),
                      MonthGroup(value, dayMonYear, 3),
                      NumGroup(value, dayMonYear, 1))
  ELSE IF Matches(value, dayMon)
  THEN namedMonthDate(CurrentYear, MonthGroup(value, dayMon, 3),
                      NumGroup(value, dayMon, 1))
  ELSE IF Matches(value, monDayYear)
  THEN namedMonthDate(normalizeYear(NumGroup(value, monDayYear, 6)),
                      MonthGroup(value, monDayYear, 1),
                      NumGroup(value, monDayYear, 3))
  ELSE IF Matches(value, monDay)
  THEN namedMonthDate(CurrentYear, MonthGroup(value, monDay, 1),
                      NumGroup(value, monDay, 3))
  ELSE ""

parseDateValue(value, preference) ==
  parseDateMatched(value, preference, Match(value, 1, YMD), Match(value, 1, DMY),
                   Match(value, 1, DAY_MON_YEAR), Match(value, 1, DAY_MON),
                   Match(value, 1, MON_DAY_YEAR), Match(value, 1, MON_DAY))

\* preference is "day-first", "month-first" or "unspecified" (undefined)
parseDate(raw, preference) == parseDateValue(trim(raw), preference)

(***************************************************************************)
(* Amounts.                                                                *)
(***************************************************************************)
Null == <<>>
Some(v) == <<v>>

\* s.replace(/\bCR\b|\bDR\b/g, ""): a character goes when a match starts
\* at it or just before it
crDrAt(s, i) == WordAt(s, i, "CR") \/ WordAt(s, i, "DR")

StripCrDr(s) ==
  ConcatRange([i \in 1..Len(s) |->
                 IF crDrAt(s, i) \/ crDrAt(s, i - 1) THEN "" ELSE Ch(s, i)],
              1, Len(s))

\* s with every character of class cls removed
StripChars(s, cls) ==
  ConcatRange([i \in 1..Len(s) |-> IF Ch(s, i) \in cls THEN "" ELSE Ch(s, i)],
              1, Len(s))

\* the hundredths of a fraction of at most two digits
centsOf(frac) ==
  IF Len(frac) = 0 THEN 0
  ELSE IF Len(frac) = 1 THEN 10 * Number(frac)
  ELSE Number(Sub(frac, 1, 2))

\* digits[.digits] in hundredths
magnitudeOf(body, intLen) ==
  100 * Number(Sub(body, 1, intLen)) + centsOf(Rest(body, intLen + 2))

\* Number(literal) in hundredths, for a literal -?digits[.digits] with at most
\* two decimals: the amount pattern admits exactly two
NumberOfDecimal(literal) ==
  IF Ch(literal, 1) = "-"
  THEN 0 - magnitudeOf(Rest(literal, 2), RunLen(literal, 2, Digit))
  ELSE magnitudeOf(literal, RunLen(literal, 1, Digit))

\* resolveSign with the two overrides of lines 149-150 in the other order
resolveSignDebitLast(amount, isParenNegative, isMinusNegative, isDebit, isCredit) ==
  IF isParenNegative \/ isMinusNegative \/ isDebit THEN -1
  ELSE IF isCredit THEN 1
  ELSE IF amount < 0 THEN -1 ELSE 1

\* the sign the markers give: lines 148-150
resolveSign(amount, isParenNegative, isMinusNegative, isDebit, isCredit) ==
  IF isCredit THEN 1
  ELSE IF isParenNegative \/ isMinusNegative \/ isDebit THEN -1
  ELSE IF amount < 0 THEN -1 ELSE 1

Abs(n) == IF n < 0 THEN 0 - n ELSE n

\* /(^|[^\d])-\s*\$?\d/
MINUS_NEGATIVE == <<One({"-"}), Star(Space), Opt({"$"}), One(Digit)>>

isMinusNegative(normalized) ==
  \E i \in 1..Len(normalized) :
    Ch(normalized, i - 1) \notin Digit /\ Match(normalized, i, MINUS_NEGATIVE) # NoMatch

\* /^-?\d[\d,]*\.?\d*$/
DECIMAL == <<Opt({"-"}), One(Digit), Star(DigitOrComma), Opt({"."}), Star(Digit)>>

\* line 139-142
numericOf(normalized) ==
  StripChars(StripChars(StripCrDr(normalized), {"(", ")", ",", "$"}), Space)

signedAmount(amount, sign) == Some(Abs(amount) * sign)

\* lines 144-151
parseNumeric(normalized, numeric) ==
  IF ~Matches(numeric, Match(numeric, 1, DECIMAL)) THEN Null
  ELSE signedAmount(NumberOfDecimal(StripChars(numeric, {","})),
                    resolveSign(NumberOfDecimal(StripChars(numeric, {","})),
                                Contains(normalized, "(") /\ Contains(normalized, ")"),
                                isMinusNegative(normalized),
                                HasWord(normalized, "DR"),
                                HasWord(normalized, "CR")))

parseNormalized(normalized) ==
  IF normalized = "" THEN Null
  ELSE parseNumeric(normalized, numericOf(normalized))

parseAmount(raw) == parseNormalized(toUpperCase(trim(raw)))

\* \d[\d,]*\.\d{2}
AmountCore == <<One(Digit), Star(DigitOrComma), One({"."}), Rep(Digit, 2, 2)>>
\* \(\$?\d[\d,]*\.\d{2}\)
AmountParen == <<One({"("}), Opt({"$"})>> \o AmountCore \o <<One({")"})>>
\* -?\$?\d[\d,]*\.\d{2}
AmountPlain == <<Opt({"-"}), Opt({"$"})>> \o AmountCore
\* \s?(?:CR|DR) under the i flag
AmountSuffix == <<Opt(Space), One({"C", "c", "D", "d"}), One({"R", "r"})>>

\* AMOUNT_TOKEN and HAS_AMOUNT_TOKEN: the alternation, each alternative with
\* and then without the optional suffix
AMOUNT_TOKEN ==
  <<AmountParen \o AmountSuffix, AmountParen,
    AmountPlain \o AmountSuffix, AmountPlain>>

\* AMOUNT_TOKEN at position i of s: the length matched, 0 for no match
AmountTokenLen(s, i) == AltLen(s, i, AMOUNT_TOKEN, FirstAlt(s, i, AMOUNT_TOKEN, 1))

\* the least member of a set of positions, 0 for the empty set
firstOf(positions) ==
  IF positions = {} THEN 0
  ELSE CHOOSE j \in positions : \A k \in positions : j <= k

\* AMOUNT_TOKEN.lastIndex: AMOUNT_TOKEN is the one regex of the module with
\* the g flag, so the one whose cursor a match can start from and move
VARIABLE lastIndex

\* the first position from i on where AMOUNT_TOKEN matches, 0 for none
nextAmountAt(s, i) == firstOf({j \in i..Len(s) : AmountTokenLen(s, j) > 0})

\* [...s.matchAll(AMOUNT_TOKEN)] from position i on: each match with its
\* 0-based index and its text
RECURSIVE matchAllAmounts(_, _)
matchesFrom(s, at) ==
  IF at = 0 THEN <<>>
  ELSE <<[index |-> at - 1, text |-> Sub(s, at, at + AmountTokenLen(s, at) - 1)]>>
         \o matchAllAmounts(s, at + AmountTokenLen(s, at))

matchAllAmounts(s, i) == matchesFrom(s, nextAmountAt(s, i))

HAS_AMOUNT_TOKEN(s) == nextAmountAt(s, 1) # 0

(***************************************************************************)
(* Line patterns.                                                          *)
(***************************************************************************)
\* DATE_AT_START: its four alternatives, those with an optional group with
\* and then without it
DATE_AT_START_ALTS == <<YMD, DMY, DAY_MON_YEAR, DAY_MON, MON_DAY_YEAR, MON_DAY>>

\* line.match(DATE_AT_START): the text of group 1, "" for no match
DATE_AT_START(s) ==
  Sub(s, 1, AltLen(s, 1, DATE_AT_START_ALTS, FirstAlt(s, 1, DATE_AT_START_ALTS, 1)))

HeaderKeywords == {"date", "description", "amount", "balance", "debit", "credit"}

headerIn(lower) == \E kw \in HeaderKeywords : HasWord(lower, kw)

\* HEADER_LINE.test(s)
HEADER_LINE(s) == headerIn(toLowerCase(s))

\* the alternatives of METADATA_LINE; wordEnd: the alternative ends in \b
MetadataPatterns ==
  { [items |-> Lit("date:") \o <<One(Space)>>, wordEnd |-> FALSE],
    [items |-> Lit("transaction:") \o <<One(Space)>>, wordEnd |-> FALSE],
    [items |-> Lit("showing:") \o <<One(Space)>>, wordEnd |-> FALSE],
    [items |-> Lit("order:") \o <<One(Space)>>, wordEnd |-> FALSE],
    [items |-> Lit("historyhttp") \o <<Opt({"s", "S"}), One({":"})>>,
     wordEnd |-> FALSE],
    [items |-> Lit("account") \o <<Plus(Space)>> \o Lit("history"),
     wordEnd |-> FALSE],
    [items |-> Lit("uncleared") \o <<Plus(Space)>> \o Lit("funds"),
     wordEnd |-> TRUE],
    [items |-> <<Plus(Digit), Plus(Space)>> \o Lit("of")
                 \o <<Plus(Space), Plus(Digit)>>,
     wordEnd |-> TRUE] }

endsAsWord(s, m, wordEnd) ==
  m # NoMatch /\ (wordEnd => Ch(s, Total(m) + 1) \notin WordChar)

\* METADATA_LINE.test(s)
METADATA_LINE(s) ==
  \E p \in MetadataPatterns : endsAsWord(s, Match(s, 1, p.items), p.wordEnd)

\* s.replace(/\s+/g, " "): each run of white space leaves one space
collapseSpace(s) ==
  ConcatRange([i \in 1..Len(s) |->
                 IF Ch(s, i) \notin Space THEN Ch(s, i)
                 ELSE IF Ch(s, i - 1) \in Space THEN "" ELSE " "],
              1, Len(s))

normalizeLine(line) == trim(collapseSpace(line))

isCandidateLine(line) ==
  IF line = "" \/ METADATA_LINE(line) THEN FALSE
  ELSE IF HEADER_LINE(line) /\ DATE_AT_START(line) = "" THEN FALSE
  ELSE DATE_AT_START(line) # ""

isLikelyContinuation(line) ==
  IF line = "" THEN FALSE
  ELSE IF METADATA_LINE(line) THEN FALSE
  ELSE IF HEADER_LINE(line) THEN FALSE
  ELSE IF isCandidateLine(line) THEN FALSE
  ELSE ~HAS_AMOUNT_TOKEN(line)

\* the index of the match taken as the amount: line 186
amountIndexOf(count) == IF count >= 2 THEN count - 2 ELSE count - 1

\* lines 191-200: the balance is the last of two or more matches, when it parses
balanceOf(amountMatches) ==
  IF Len(amountMatches) >= 2
  THEN parseAmount(amountMatches[Len(amountMatches)].text)
  ELSE Null

\* transactionOf without the HEADER_LINE test of line 203
transactionOfAnyWords(date, description, amount, balance) ==
  IF description = "" THEN Null
  ELSE Some([date |-> date, description |-> description,
             amount |-> amount[1], balance |-> balance])

\* lines 202-205; a Transaction is [date, description, amount, balance],
\* balance Null when undefined; the result is Null or Some(transaction)
transactionOf(date, description, amount, balance) ==
  IF description = "" \/ HEADER_LINE(description) THEN Null
  ELSE Some([date |-> date, description |-> description,
             amount |-> amount[1], balance |-> balance])

\* lines 187-205
withAmount(date, remainder, amountMatches, amountMatch, amount) ==
  IF amount = Null THEN Null
  ELSE transactionOf(date,
                     normalizeLine(trim(Sub(remainder, 1, amountMatch.index))),
                     amount, balanceOf(amountMatches))

\* lines 184-189
withMatches(date, remainder, amountMatches) ==
  IF Len(amountMatches) = 0 THEN Null
  ELSE withAmount(date, remainder, amountMatches,
                  amountMatches[amountIndexOf(Len(amountMatches)) + 1],
                  parseAmount(amountMatches[amountIndexOf(Len(amountMatches)) + 1].text))

\* withDate without `if (!date) return null` of line 180
withDateUnchecked(date, remainder) ==
  withMatches(date, remainder, matchAllAmounts(remainder, lastIndex + 1))

\* lines 180-183
withDate(date, remainder) ==
  IF date = "" THEN Null
  ELSE withMatches(date, remainder, matchAllAmounts(remainder, lastIndex + 1))

\* lines 176-182
withDateMatch(clean, dateRaw, datePreference) ==
  IF dateRaw = "" THEN Null
  ELSE withDate(parseDate(dateRaw, datePreference),
                trim(Rest(clean, Len(dateRaw) + 1)))

\* lines 174-175
parseClean(clean, datePreference) ==
  IF METADATA_LINE(clean) THEN Null
  ELSE withDateMatch(clean, DATE_AT_START(clean), datePreference)

parseTransactionLine(line, datePreference) ==
  parseClean(normalizeLine(line), datePreference)

\* signalOf without the tests of the other component
signalOfOneSided(raw, parts) ==
  IF raw = "" \/ ~Matches(raw, parts) THEN "none"
  ELSE IF NumGroup(raw, parts, 1) > 12 THEN "day-first"
  ELSE IF NumGroup(raw, parts, 3) > 12 THEN "month-first"
  ELSE "none"

\* raw.match(/^(\d{1,2})[/.-](\d{1,2})[/.-](\d{2,4})$/) of the date token, and
\* the signal the line gives: lines 216-222
signalOf(raw, parts) ==
  IF raw = "" \/ ~Matches(raw, parts) THEN "none"
  ELSE IF NumGroup(raw, parts, 1) > 12 /\ NumGroup(raw, parts, 3) <= 12
  THEN "day-first"
  ELSE IF NumGroup(raw, parts, 3) > 12 /\ NumGroup(raw, parts, 1) <= 12
  THEN "month-first"
  ELSE "none"

lineSignal(raw) == signalOf(raw, Match(raw, 1, DMY))

\* the number of lines that give the signal
signalCount(lines, signal) ==
  Cardinality({k \in 1..Len(lines) : lineSignal(DATE_AT_START(lines[k])) = signal})

preferenceOf(dayFirstSignals, monthFirstSignals) ==
  IF dayFirstSignals > monthFirstSignals THEN "day-first"
  ELSE IF monthFirstSignals > dayFirstSignals THEN "month-first"
  ELSE "unspecified"

detectDatePreference(lines) ==
  preferenceOf(signalCount(lines, "day-first"), signalCount(lines, "month-first"))

(***************************************************************************)
(* parseStatementText as a state machine: one step per input line.         *)
(***************************************************************************)
\* text.split(/\r?\n/)
RECURSIVE split(_)
split(text) ==
  LET feeds == {j \in 1..Len(text) : Ch(text, j) = "\n"}
      at == CHOOSE j \in feeds : \A k \in feeds : j <= k
      piece == IF Ch(text, at - 1) = "\r"
               THEN Sub(text, 1, at - 2) ELSE Sub(text, 1, at - 1)
  IN IF feeds = {} THEN <<text>>
     ELSE <<piece>> \o split(Rest(text, at + 1))

\* pieces.map(normalizeLine).filter(Boolean)
RECURSIVE normalizedLines(_)
normalizedLines(pieces) ==
  IF pieces = <<>> THEN <<>>
  ELSE (IF normalizeLine(Head(pieces)) = "" THEN <<>>
        ELSE <<normalizeLine(Head(pieces))>>)
         \o normalizedLines(Tail(pieces))

\* the lines a document is written from
LinePool ==
  { "2026-01-15 Shop -54.23 2,450.77",
    "02/16/2026 Fuel (20.00)",
    "31/04/2026 Bad 1.00",
    "25/13/2026 Odd 1.00",
    "15/02/2026VISA-OPENAI",
    "-$32.13$12,424.08",
    "5.00 12.00CR",
    "DateDescriptionAmountBalance",
    "2 of 5 $12.00",
    "WEEKLY AUTO  MOVE" }

RECURSIVE join(_, _)
join(pieces, sep) ==
  IF pieces = <<>> THEN ""
  ELSE IF Len(pieces) = 1 THEN pieces[1]
  ELSE pieces[1] \o sep \o join(Tail(pieces), sep)

\* the input texts: up to MaxLines lines of the pool, separated by line feeds
Texts ==
  {join(ls, "\n") : ls \in UNION {[1..n -> LinePool] : n \in 0..MaxLines}}

VARIABLES
  text,              \* the argument of parseStatementText
  pc,                \* "start", "loop" or "done"
  lines,             \* the normalized non-empty lines
  idx,               \* the loop's position in lines, from 1
  datePreference,
  transactions,
  candidateRows,
  pendingCandidate,  \* "" for null
  result,            \* the ParseResult, Null until the call returns
  raw,               \* the argument of a call of parseDate or parseAmount
  preference,        \* the second argument of a call of parseDate
  value,             \* what the call returns
  returned,          \* the calls of parseStatementText that returned so far
  request,           \* the request the handler of api/parse.ts got
  hpc,               \* where the handler is
  response,          \* the response sent, Null before
  deletes,           \* the DeleteObjectCommands sent
  stored             \* whether the uploaded object is in the bucket

parseVars == <<text, lines, idx, datePreference, transactions, candidateRows,
               pendingCandidate, result>>

callVars == <<raw, preference, value>>

sessionVars == <<lastIndex, returned>>

handlerVars == <<request, hpc, response, deletes, stored>>

vars == <<pc, parseVars, callVars, sessionVars, handlerVars>>

\* no request under way
NoRequest ==
  /\ request = [method |-> "", key |-> <<>>]
  /\ hpc = "idle"
  /\ response = Null
  /\ deletes = 0
  /\ stored = FALSE

\* the module as loaded, no call made yet
FreshModule ==
  /\ lastIndex = 0
  /\ returned = <<>>

\* lastIndexAfter if the line were tested with AMOUNT_TOKEN.test(lineText):
\* the end of the first match from the cursor on, 0 for none
lastIndexAfterTest(lineText, cursor) ==
  IF nextAmountAt(lineText, cursor + 1) = 0 THEN 0
  ELSE nextAmountAt(lineText, cursor + 1) - 1
         + AmountTokenLen(lineText, nextAmountAt(lineText, cursor + 1))

\* AMOUNT_TOKEN.lastIndex after a line went through the loop body: matchAll
\* (line 183) iterates a copy of the regex, and lines 158-170 test with the
\* regexes without the g flag
lastIndexAfter(lineText, cursor) == cursor

\* no call of parseStatementText under way
NoParse ==
  /\ text = ""
  /\ lines = <<>>
  /\ idx = 1
  /\ datePreference = "unspecified"
  /\ transactions = <<>>
  /\ candidateRows = 0
  /\ pendingCandidate = ""
  /\ result = Null

\* no call of parseDate or parseAmount under way
NoCall ==
  /\ raw = ""
  /\ preference = "unspecified"
  /\ value = Null

Init ==
  /\ text \in Texts
  /\ pc = "start"
  /\ lines = <<>>
  /\ idx = 1
  /\ datePreference = "unspecified"
  /\ transactions = <<>>
  /\ candidateRows = 0
  /\ pendingCandidate = ""
  /\ result = Null
  /\ NoCall
  /\ FreshModule
  /\ NoRequest

\* lines 231-239
Prepare ==
  /\ pc = "start"
  /\ lines' = normalizedLines(split(text))
  /\ datePreference' = detectDatePreference(lines')
  /\ pc' = "loop"
  /\ UNCHANGED <<text, idx, transactions, candidateRows, pendingCandidate, result>>
  /\ UNCHANGED <<callVars, sessionVars, handlerVars>>

InLoop == pc = "loop" /\ idx <= Len(lines)

\* the line the loop is at
line == lines[idx]

\* line 246
combined == trim(pendingCandidate \o " " \o line)

\* mergeStep with unshift for push at line 249
mergeStepUnshift(combinedParsed) ==
  IF combinedParsed # Null
  THEN /\ transactions' = <<combinedParsed[1]>> \o transactions
       /\ pendingCandidate' = ""
  ELSE /\ pendingCandidate' = IF isLikelyContinuation(line) THEN combined ELSE ""
       /\ transactions' = transactions

\* mergeStep that also appends a held continuation to the last transaction
mergeStepAppendHeld(combinedParsed) ==
  IF combinedParsed # Null
  THEN /\ transactions' = Append(transactions, combinedParsed[1])
       /\ pendingCandidate' = ""
  ELSE /\ pendingCandidate' = IF isLikelyContinuation(line) THEN combined ELSE ""
       /\ transactions' = IF Len(transactions) > 0 /\ isLikelyContinuation(line)
                          THEN [transactions EXCEPT ![Len(transactions)].description =
                                  trim(@ \o " " \o line)]
                          ELSE transactions

\* lines 248-254, given the combined text's extraction
mergeStep(combinedParsed) ==
  IF combinedParsed # Null
  THEN /\ transactions' = Append(transactions, combinedParsed[1])
       /\ pendingCandidate' = ""
  ELSE /\ pendingCandidate' = IF isLikelyContinuation(line) THEN combined ELSE ""
       /\ transactions' = transactions

\* appendToPrev with prev taken as transactions[0]
appendToFirst(txs, continuation) ==
  [txs EXCEPT ![1].description = trim(@ \o " " \o continuation)]

\* lines 270-271
appendToPrev(txs, continuation) ==
  [txs EXCEPT ![Len(txs)].description = trim(@ \o " " \o continuation)]

\* directStep emitting a candidate that did not extract as a row without date
directStepKeepFailed(isCandidate, parsed) ==
  IF parsed # Null
  THEN /\ transactions' = Append(transactions, parsed[1])
       /\ pendingCandidate' = ""
  ELSE IF isCandidate
  THEN /\ pendingCandidate' = line
       /\ transactions' = Append(transactions,
                                 [date |-> "", description |-> line,
                                  amount |-> 0, balance |-> Null])
  ELSE IF Len(transactions) > 0 /\ isLikelyContinuation(line)
  THEN /\ transactions' = appendToPrev(transactions, line)
       /\ pendingCandidate' = pendingCandidate
  ELSE /\ transactions' = transactions
       /\ pendingCandidate' = pendingCandidate

\* directStep without the isLikelyContinuation test of line 269
directStepAppendAny(isCandidate, parsed) ==
  IF parsed # Null
  THEN /\ transactions' = Append(transactions, parsed[1])
       /\ pendingCandidate' = ""
  ELSE IF isCandidate
  THEN /\ pendingCandidate' = line
       /\ transactions' = transactions
  ELSE IF Len(transactions) > 0
  THEN /\ transactions' = appendToPrev(transactions, line)
       /\ pendingCandidate' = pendingCandidate
  ELSE /\ transactions' = transactions
       /\ pendingCandidate' = pendingCandidate

\* lines 258-272, given the line's extraction
directStep(isCandidate, parsed) ==
  IF parsed # Null
  THEN /\ transactions' = Append(transactions, parsed[1])
       /\ pendingCandidate' = ""
  ELSE IF isCandidate
  THEN /\ pendingCandidate' = line
       /\ transactions' = transactions
  ELSE IF Len(transactions) > 0 /\ isLikelyContinuation(line)
  THEN /\ transactions' = appendToPrev(transactions, line)
       /\ pendingCandidate' = pendingCandidate
  ELSE /\ transactions' = transactions
       /\ pendingCandidate' = pendingCandidate

\* loopBody with line 245 as `if (pendingCandidate)`: a pending line merged
\* with every next line
loopBodyMergeAll(isCandidate) ==
  /\ candidateRows' = candidateRows + (IF isCandidate THEN 1 ELSE 0)
  /\ IF pendingCandidate # ""
     THEN mergeStep(parseTransactionLine(combined, datePreference))
     ELSE directStep(isCandidate, parseTransactionLine(line, datePreference))

\* loopBody with line 257 as parseTransactionLine(line)
loopBodyNoPreference(isCandidate) ==
  /\ candidateRows' = candidateRows + (IF isCandidate THEN 1 ELSE 0)
  /\ IF pendingCandidate # "" /\ ~isCandidate
     THEN mergeStep(parseTransactionLine(combined, datePreference))
     ELSE directStep(isCandidate, parseTransactionLine(line, "unspecified"))

\* loopBody counting a candidate only where it is held (line 265), not at
\* line 243
loopBodyCountHeld(isCandidate) ==
  /\ IF pendingCandidate # "" /\ ~isCandidate
     THEN mergeStep(parseTransactionLine(combined, datePreference))
     ELSE directStep(isCandidate, parseTransactionLine(line, datePreference))
  /\ candidateRows' = candidateRows
       + (IF isCandidate /\ pendingCandidate' = line THEN 1 ELSE 0)

\* lines 243-272
loopBody(isCandidate) ==
  /\ candidateRows' = candidateRows + (IF isCandidate THEN 1 ELSE 0)
  /\ IF pendingCandidate # "" /\ ~isCandidate
     THEN mergeStep(parseTransactionLine(combined, datePreference))
     ELSE directStep(isCandidate, parseTransactionLine(line, datePreference))

\* one turn of the loop of lines 241-273
ProcessLine ==
  /\ InLoop
  /\ loopBody(isCandidateLine(line))
  /\ idx' = idx + 1
  /\ lastIndex' = lastIndexAfter(line, lastIndex)
  /\ UNCHANGED <<text, pc, lines, datePreference, result, returned>>
  /\ UNCHANGED <<callVars, handlerVars>>

\* transactions.filter((t) => Boolean(t.date) && Number.isFinite(t.amount)).length
\* (every amount of the model is a finite number)
validRowsOf(txs) == Cardinality({k \in 1..Len(txs) : txs[k].date # ""})

\* Math.min(1, validRows / 8) in eighths
sizeFactor8(validRows) == IF validRows < 8 THEN validRows ELSE 8

\* The pairs <<candidateRows, validRows>>, of up to 16 candidate rows, where
\* ratio * 0.7 + sizeFactor * 0.3 is exactly halfway between two hundredths
\* and the sum computed in IEEE 754 doubles is not below that half: 0.125,
\* 0.625, 0.875 and 0.645.  At the other halves (0.775 for 2 of 2, 0.425 for
\* 2 of 4, 0.355 for 2 of 5, ...) the computed sum is below the half, 0.7 and
\* 0.3 having no exact double.
HalvesKept == {<<8, 1>>, <<8, 5>>, <<8, 7>>, <<10, 6>>}

\* x.toFixed(2) in hundredths for the double x that stands for num / den:
\* the nearest hundredth, an exact half decided by the side the double is on
toFixed2(num, den, halfKept) ==
  IF 2 * (num % den) > den \/ (2 * (num % den) = den /\ halfKept)
  THEN (num \div den) + 1
  ELSE num \div den

\* confidenceOf without the sizeFactor term
confidenceOfRatio(validRows, candidates) ==
  IF candidates = 0 THEN 0
  ELSE toFixed2(70 * validRows, candidates, FALSE)

\* line 278: Number((ratio * 0.7 + sizeFactor * 0.3).toFixed(2)) in
\* hundredths; the sum is (70 * validRows * 8 + 30 * sizeFactor8 * candidates)
\* / (8 * candidates) hundredths
confidenceOf(validRows, candidates) ==
  IF candidates = 0 THEN 0
  ELSE toFixed2(70 * validRows * 8 + 30 * sizeFactor8(validRows) * candidates,
                8 * candidates, <<candidates, validRows>> \in HalvesKept)

NoRowsWarning == "No transaction-like rows were detected in extracted text."
FewRowsWarning == "Few rows were parsed; review output carefully."
LowReliabilityWarning ==
  "Low parse reliability: fewer than 80% of candidate rows were valid."

\* warningsOf without the warning of line 281
warningsOfCandidates(validRows, candidates) ==
  (IF validRows > 0 /\ validRows < 3 THEN <<FewRowsWarning>> ELSE <<>>)
    \o (IF candidates > 0 /\ validRows > 0 /\ 10 * validRows < 8 * candidates
        THEN <<LowReliabilityWarning>> ELSE <<>>)

\* warningsOf without the warning of line 282
warningsOfManyRows(validRows, candidates) ==
  (IF candidates = 0 THEN <<NoRowsWarning>> ELSE <<>>)
    \o (IF candidates > 0 /\ validRows > 0 /\ 10 * validRows < 8 * candidates
        THEN <<LowReliabilityWarning>> ELSE <<>>)

\* lines 280-283; ratio < 0.8 is 10 * validRows < 8 * candidateRows
warningsOf(validRows, candidates) ==
  (IF candidates = 0 THEN <<NoRowsWarning>> ELSE <<>>)
    \o (IF validRows > 0 /\ validRows < 3 THEN <<FewRowsWarning>> ELSE <<>>)
    \o (IF candidates > 0 /\ validRows > 0 /\ 10 * validRows < 8 * candidates
        THEN <<LowReliabilityWarning>> ELSE <<>>)

\* line 293: Number(ratio.toFixed(2)) in hundredths.  With fewer than 40
\* candidate rows a ratio halfway between two hundredths is a number of
\* eighths, an exact double, and toFixed rounds it up
validRatioOf(validRows, candidates) ==
  IF candidates = 0 THEN 0 ELSE toFixed2(100 * validRows, candidates, TRUE)

\* lines 285-296, given validRows
resultOf(validRows) ==
  [transactions |-> transactions,
   warnings |-> warningsOf(validRows, candidateRows),
   confidence |-> confidenceOf(validRows, candidateRows),
   debug |-> [candidateRows |-> candidateRows,
              parsedRows |-> Len(transactions),
              validRows |-> validRows,
              validRatio |-> validRatioOf(validRows, candidateRows),
              datePreference |-> datePreference]]

\* lines 275-296
Finish ==
  /\ pc = "loop" /\ idx > Len(lines)
  /\ result' = Some(resultOf(validRowsOf(transactions)))
  /\ pc' = "done"
  /\ UNCHANGED <<text, lines, idx, datePreference, transactions, candidateRows,
                 pendingCandidate, lastIndex>>
  /\ returned' = Append(returned, [text |-> text, result |-> result'[1]])
  /\ UNCHANGED <<callVars, handlerVars>>

Next ==
  \/ Prepare
  \/ ProcessLine
  \/ Finish

Spec == Init /\ [][Next]_vars

(***************************************************************************)
(* parseDate on its own: one call, its arguments drawn from DateInputs.    *)
(***************************************************************************)
Years == {0, 50, 99, 100, 1970, 2024, 2026}
Months == {1, 2, 4, 12}
Days == {1, 29, 30, 31}
Components == {3, 4, 12, 13, 31}

\* dates written year-month-day, the impossible ones among them
IsoInputs ==
  {formatIso(y, m, d) : y \in Years, m \in Months, d \in Days}

\* numeric dates of two components and a year
NumericInputs ==
  {String(a) \o "/" \o padStart(String(b), 2) \o "/" \o String(y) :
     a \in Components, b \in Components, y \in {26, 2026}}

NamedInputs == {"16 Feb 2026", "16 Feb", "Feb 16, 2026", "Feb 16", "16 Foo 2026"}

DateInputs == IsoInputs \cup NumericInputs \cup NamedInputs

Preferences == {"day-first", "month-first", "unspecified"}

InitDate ==
  /\ pc = "start"
  /\ NoParse
  /\ FreshModule
  /\ NoRequest
  /\ raw \in DateInputs
  /\ preference \in Preferences
  /\ value = Null

CallParseDate ==
  /\ pc = "start"
  /\ value' = parseDate(raw, preference)
  /\ pc' = "done"
  /\ UNCHANGED <<parseVars, raw, preference, sessionVars, handlerVars>>

NextDate == CallParseDate

SpecDate == InitDate /\ [][NextDate]_vars

(***************************************************************************)
(* parseAmount on its own: one call, its argument drawn from AmountInputs. *)
(***************************************************************************)
Literals == {"54.23", "2,450.77", "0.50"}
Suffixes == {"", " CR", " DR", "CR", "DR", " cr", " DR CR", " CR DR"}

\* a literal in its markers
written(paren, minus, dollar, literal, suffix) ==
  (IF paren THEN "(" ELSE "") \o (IF minus THEN "-" ELSE "")
    \o (IF dollar THEN "$" ELSE "") \o literal
    \o (IF paren THEN ")" ELSE "") \o suffix

AmountInputs ==
  {written(p, m, d, l, x) :
     p \in BOOLEAN, m \in BOOLEAN, d \in BOOLEAN, l \in Literals, x \in Suffixes}

InitAmount ==
  /\ pc = "start"
  /\ NoParse
  /\ FreshModule
  /\ NoRequest
  /\ raw \in AmountInputs
  /\ preference = "unspecified"
  /\ value = Null

CallParseAmount ==
  /\ pc = "start"
  /\ value' = parseAmount(raw)
  /\ pc' = "done"
  /\ UNCHANGED <<parseVars, raw, preference, sessionVars, handlerVars>>

NextAmount == CallParseAmount

SpecAmount == InitAmount /\ [][NextAmount]_vars

(***************************************************************************)
(* parseTransactionLine on its own: one call on a line written as a date   *)
(* token, a merchant text right after it, a space and the amounts.         *)
(***************************************************************************)
DateTokens ==
  {"6 Feb 2026", "6 Feb 26", "6 Feb", "Feb 6, 2026", "Feb 6", "15/02/2026",
   "15/02/26", "2026-02-06"}
Merchants == {"7-ELEVEN 3058", "VISA-OPENAI", "Shop", "#6071356 AU"}
AmountTexts == {"-$6.80 $5.09", "4.50", "(20.00)"}

LineInputs ==
  {d \o b \o " " \o a : d \in DateTokens, b \in Merchants, a \in AmountTexts}

InitLine ==
  /\ pc = "start"
  /\ NoParse
  /\ FreshModule
  /\ NoRequest
  /\ raw \in LineInputs
  /\ preference \in Preferences
  /\ value = Null

CallParseTransactionLine ==
  /\ pc = "start"
  /\ value' = parseTransactionLine(raw, preference)
  /\ pc' = "done"
  /\ UNCHANGED <<parseVars, raw, preference, sessionVars, handlerVars>>

NextLine == CallParseTransactionLine

SpecLine == InitLine /\ [][NextLine]_vars

(***************************************************************************)
(* parseStatementText on documents of many rows: validRows rows that       *)
(* extract, then rows with a date-shaped start that is no calendar date.   *)
(***************************************************************************)
MaxCandidates == 12

ValidRow == "2026-01-15 Shop -54.23 2,450.77"
InvalidRow == "31/04/2026 Bad 1.00"

rowsOf(validRows, candidates) ==
  [k \in 1..candidates |-> IF k <= validRows THEN ValidRow ELSE InvalidRow]

RowTexts ==
  {join(rowsOf(v, c), "\n") : v \in 0..MaxCandidates, c \in 0..MaxCandidates}

InitRows ==
  /\ text \in RowTexts
  /\ pc = "start"
  /\ lines = <<>>
  /\ idx = 1
  /\ datePreference = "unspecified"
  /\ transactions = <<>>
  /\ candidateRows = 0
  /\ pendingCandidate = ""
  /\ result = Null
  /\ NoCall
  /\ FreshModule
  /\ NoRequest

SpecRows == InitRows /\ [][Next]_vars

(***************************************************************************)
(* parseStatementText on documents written with each line-ending           *)
(* convention.                                                             *)
(***************************************************************************)
MaxEndingLines == 2

\* LF, CRLF, CR
LineEndings == {"\n", "\r\n", "\r"}

EndingLines == UNION {[1..n -> LinePool] : n \in 0..MaxEndingLines}

EndingTexts == {join(ls, sep) : ls \in EndingLines, sep \in LineEndings}

InitEndings ==
  /\ text \in EndingTexts
  /\ pc = "start"
  /\ lines = <<>>
  /\ idx = 1
  /\ datePreference = "unspecified"
  /\ transactions = <<>>
  /\ candidateRows = 0
  /\ pendingCandidate = ""
  /\ result = Null
  /\ NoCall
  /\ FreshModule
  /\ NoRequest

SpecEndings == InitEndings /\ [][Next]_vars

(***************************************************************************)
(* parseStatementText on documents with numeric dates that can be read     *)
(* day first or month first, next to dates that can be read one way only.  *)
(***************************************************************************)
OrderLines ==
  { "03/04/2026 Tea 1.00",
    "05/06/26 Bun 2.00",
    "07/08/2026Rent",
    "-$32.13$12,424.08",
    "15/02/2026 Pay 3.00",
    "02/16/2026 Fuel (20.00)" }

OrderTexts ==
  {join(ls, "\n") : ls \in UNION {[1..n -> OrderLines] : n \in 0..MaxLines}}

InitOrder ==
  /\ text \in OrderTexts
  /\ pc = "start"
  /\ lines = <<>>
  /\ idx = 1
  /\ datePreference = "unspecified"
  /\ transactions = <<>>
  /\ candidateRows = 0
  /\ pendingCandidate = ""
  /\ result = Null
  /\ NoCall
  /\ FreshModule
  /\ NoRequest

SpecOrder == InitOrder /\ [][Next]_vars

(***************************************************************************)
(* parseStatementText on documents with table headers, header words inside *)
(* rows, metadata and wrapped descriptions.                                *)
(***************************************************************************)
HeaderLines ==
  { "2026-01-15 Shop -54.23 2,450.77",
    "2026-01-16 Credit interest 1.00",
    "15/02/2026VISA-OPENAI",
    "-$32.13$12,424.08",
    "Date Description Amount Balance",
    "closing balance",
    "DateDescriptionAmountBalance",
    "2 of 5 $12.00",
    "WEEKLY AUTO  MOVE" }

HeaderTexts ==
  {join(ls, "\n") : ls \in UNION {[1..n -> HeaderLines] : n \in 0..MaxLines}}

InitHeaders ==
  /\ text \in HeaderTexts
  /\ pc = "start"
  /\ lines = <<>>
  /\ idx = 1
  /\ datePreference = "unspecified"
  /\ transactions = <<>>
  /\ candidateRows = 0
  /\ pendingCandidate = ""
  /\ result = Null
  /\ NoCall
  /\ FreshModule
  /\ NoRequest

SpecHeaders == InitHeaders /\ [][Next]_vars

(***************************************************************************)
(* Several calls of parseStatementText in one process, one after the       *)
(* other: the function is synchronous, so a call runs to its return before *)
(* the next one starts.                                                    *)
(***************************************************************************)
MaxCalls == 3

CallTexts ==
  { "2026-01-15 Shop -54.23 2,450.77",
    "02/16/2026 Fuel (20.00)\n2026-01-15 Shop -54.23 2,450.77",
    "15/02/2026VISA-OPENAI\n-$32.13$12,424.08",
    "DateDetailsDebitsCreditsBalance\n2026-01-15 Shop -54.23 2,450.77",
    "2026-01-15 Shop -54.23 2,450.77\n31/04/2026 Bad 1.00" }

InitCalls ==
  /\ text \in CallTexts
  /\ pc = "start"
  /\ lines = <<>>
  /\ idx = 1
  /\ datePreference = "unspecified"
  /\ transactions = <<>>
  /\ candidateRows = 0
  /\ pendingCandidate = ""
  /\ result = Null
  /\ NoCall
  /\ FreshModule
  /\ NoRequest

\* the next call: lines 231-239 start from new locals, the module stays as
\* the calls before left it
CallAgain ==
  /\ pc = "done"
  /\ Len(returned) < MaxCalls
  /\ text' \in CallTexts
  /\ pc' = "start"
  /\ lines' = <<>>
  /\ idx' = 1
  /\ datePreference' = "unspecified"
  /\ transactions' = <<>>
  /\ candidateRows' = 0
  /\ pendingCandidate' = ""
  /\ result' = Null
  /\ UNCHANGED <<callVars, sessionVars, handlerVars>>

NextCalls ==
  \/ Prepare
  \/ ProcessLine
  \/ Finish
  \/ CallAgain

SpecCalls == InitCalls /\ [][NextCalls]_vars

(***************************************************************************)
(* The handler of POST /api/parse (api/parse.ts): validation, download,    *)
(* text extraction, parseStatementText, the response, and the delete of    *)
(* the finally block.  Download, extraction and delete are calls to the    *)
(* outside that succeed or throw.                                          *)
(***************************************************************************)
Methods == {"POST", "GET"}

\* req.body.key: Null for a missing body or key, a value that is a string or
\* not
Keys ==
  { Null,
    Some([string |-> FALSE, value |-> "42"]),
    Some([string |-> TRUE, value |-> ""]),
    Some([string |-> TRUE, value |-> "other/a.pdf"]),
    Some([string |-> TRUE, value |-> "uploads/a.pdf"]),
    Some([string |-> TRUE, value |-> "uploads/b.pdf"]) }

Requests == [method : Methods, key : Keys]

\* what extractTextFromPdf can return
ExtractedTexts ==
  { "",
    " \n ",
    "DateDescriptionAmountBalance",
    "2026-01-15 Shop -54.23 2,450.77",
    "2026-01-15 Shop -54.23 2,450.77\n02/16/2026 Fuel (20.00)",
    "15/02/2026VISA-OPENAI\n-$32.13$12,424.08",
    "31/04/2026 Bad 1.00" }

\* the messages of the errors the try block can throw
DownloadErrors == {"NoSuchKey"}
ExtractErrors == {"pdf parser export not callable", "Invalid PDF structure"}

NoTextWarning ==
  "No text extracted from PDF. OCR fallback is not implemented yet."

\* lines 15-19: the checks a request has to pass
methodAllowed(req) == req.method = "POST"
keyGiven(req) == req.key # Null /\ req.key[1].string /\ req.key[1].value # ""
keyValid(req) == keyGiven(req) /\ Sub(req.key[1].value, 1, 8) = "uploads/"

\* lines 15, 18, 19: the responses of the early returns
rejection(req) ==
  IF ~methodAllowed(req) THEN [status |-> 405, error |-> "Method not allowed"]
  ELSE IF ~keyGiven(req) THEN [status |-> 400, error |-> "key required"]
  ELSE [status |-> 400, error |-> "invalid key"]

\* lines 37-49
okResponse(parseResult, extractedText) ==
  [status |-> 200,
   ok |-> TRUE,
   transactions |-> parseResult.transactions,
   warnings |-> parseResult.warnings
                  \o (IF trim(extractedText) = "" THEN <<NoTextWarning>>
                      ELSE <<>>),
   confidence |-> parseResult.confidence]

\* lines 50-60
failResponse(message) ==
  [status |-> 500,
   ok |-> FALSE,
   error |-> "Failed to parse statement PDF: " \o message,
   warnings |-> <<message>>,
   confidence |-> 0,
   transactions |-> <<>>]

\* the finally block without its r2.send
deletesAfterNone(count) == count

\* line 63: the finally block sends one DeleteObjectCommand
deletesAfter(count) == count + 1

InitHandler ==
  /\ request \in Requests
  /\ hpc = "received"
  /\ response = Null
  /\ deletes = 0
  /\ stored = TRUE
  /\ pc = "idle"
  /\ NoParse
  /\ NoCall
  /\ lastIndex = 0
  /\ returned = <<>>

\* lines 15-21
Validate ==
  /\ hpc = "received"
  /\ IF methodAllowed(request) /\ keyValid(request)
     THEN /\ hpc' = "download"
          /\ response' = response
     ELSE /\ hpc' = "returned"
          /\ response' = Some(rejection(request))
  /\ UNCHANGED <<request, deletes, stored>>
  /\ UNCHANGED <<pc, parseVars, callVars, sessionVars>>

\* lines 25-27, and the catch block when r2.send or the stream throws
Download ==
  /\ hpc = "download"
  /\ \/ /\ stored
        /\ hpc' = "extract"
        /\ response' = response
     \/ \E message \in DownloadErrors :
          /\ hpc' = "finally"
          /\ response' = Some(failResponse(message))
  /\ UNCHANGED <<request, deletes, stored>>
  /\ UNCHANGED <<pc, parseVars, callVars, sessionVars>>

\* line 29, and the catch block when extractTextFromPdf throws; on success
\* the call of parseStatementText of line 30 starts
Extract ==
  /\ hpc = "extract"
  /\ \/ /\ text' \in ExtractedTexts
        /\ pc' = "start"
        /\ hpc' = "parse"
        /\ response' = response
     \/ \E message \in ExtractErrors :
          /\ hpc' = "finally"
          /\ response' = Some(failResponse(message))
          /\ UNCHANGED <<text, pc>>
  /\ UNCHANGED <<request, deletes, stored>>
  /\ UNCHANGED <<lines, idx, datePreference, transactions, candidateRows,
                 pendingCandidate, result>>
  /\ UNCHANGED <<callVars, sessionVars>>

\* lines 32-49, parseStatementText having returned
Respond ==
  /\ hpc = "parse"
  /\ pc = "done"
  /\ response' = Some(okResponse(result[1], text))
  /\ hpc' = "finally"
  /\ UNCHANGED <<request, deletes, stored>>
  /\ UNCHANGED <<pc, parseVars, callVars, sessionVars>>

\* lines 61-67: the delete goes through or throws, and the throw is swallowed
Delete ==
  /\ hpc = "finally"
  /\ deletes' = deletesAfter(deletes)
  /\ stored' \in {FALSE, stored}
  /\ hpc' = "returned"
  /\ UNCHANGED <<request, response>>
  /\ UNCHANGED <<pc, parseVars, callVars, sessionVars>>

NextHandler ==
  \/ Validate
  \/ Download
  \/ Extract
  \/ Prepare
  \/ ProcessLine
  \/ Finish
  \/ Respond
  \/ Delete

SpecHandler == InitHandler /\ [][NextHandler]_vars

(***************************************************************************)
(* Properties.                                                             *)
(***************************************************************************)
\* s holds w
HasSub(s, w) == \E i \in 1..(Len(s) - Len(w) + 1) : Sub(s, i, i + Len(w) - 1) = w

\* the characters of s that are of class cls
keepChars(s, cls) ==
  ConcatRange([i \in 1..Len(s) |-> IF Ch(s, i) \in cls THEN Ch(s, i) ELSE ""],
              1, Len(s))

\* the amount a token writes, in hundredths: the literal's digits, positive
\* for a CR marker, else negative for parentheses, a minus sign or a DR marker
writtenSign(s) ==
  IF HasSub(toUpperCase(s), "CR") THEN 1
  ELSE IF (Contains(s, "(") /\ Contains(s, ")")) \/ Contains(s, "-")
          \/ HasSub(toUpperCase(s), "DR")
  THEN -1
  ELSE 1

writtenMagnitude(s) == NumberOfDecimal(keepChars(s, Digit \cup {"."}))

amountWritten(s) == writtenSign(s) * writtenMagnitude(s)

\* YYYY-MM-DD
ISO_FORM == <<Rep(Digit, 4, 4), One({"-"}), Rep(Digit, 2, 2), One({"-"}),
              Rep(Digit, 2, 2)>>

\* d is a date of the calendar written YYYY-MM-DD
isCalendarDate(d) ==
  /\ Matches(d, Match(d, 1, ISO_FORM))
  /\ Number(Sub(d, 6, 7)) \in 1..12
  /\ Number(Sub(d, 9, 10)) \in 1..DaysInMonth(Number(Sub(d, 1, 4)), Number(Sub(d, 6, 7)))

\* the date token a line starts with, and the text after it
dateTokenOf(l) == DATE_AT_START(l)
afterDate(l) == trim(Rest(l, Len(DATE_AT_START(l)) + 1))

NoCandidateLine == \A k \in 1..Len(lines) : ~isCandidateLine(lines[k])

\* C1: the call comes back with a result, every line looked at, and for a
\* text in which no line is a candidate, the empty text among them, the result
\* has no transactions, confidence 0 and exactly one warning, the one that no
\* transaction-like rows were detected
C1_NoCandidates ==
  /\ pc = "done" => (result # Null /\ idx = Len(lines) + 1)
  /\ (pc = "done" /\ NoCandidateLine) =>
       /\ result[1].transactions = <<>>
       /\ result[1].confidence = 0
       /\ result[1].warnings = <<NoRowsWarning>>

\* a text of several lines, none a candidate, one of them with amount tokens,
\* has come back
C1_Witness ==
  /\ pc = "done" /\ NoCandidateLine /\ Len(lines) >= 2
  /\ \E k \in 1..Len(lines) : HAS_AMOUNT_TOKEN(lines[k])
  /\ result[1].warnings = <<NoRowsWarning>>

\* the last of the transactions after the step
emitted == transactions'[Len(transactions')]

\* the texts of the matches, one after the other
textOf(ms) == ConcatRange([k \in 1..Len(ms) |-> ms[k].text], 1, Len(ms))

\* the line is made of amount tokens and white space only
OnlyAmountTokens(l) ==
  /\ HAS_AMOUNT_TOKEN(l)
  /\ StripChars(l, Space) = StripChars(textOf(matchAllAmounts(l, 1)), Space)

\* the held line is a candidate with a date of the calendar and a description
\* and without an amount token
DatedDescription(c) ==
  /\ isCandidateLine(c)
  /\ parseDate(dateTokenOf(c), datePreference) # ""
  /\ afterDate(c) # ""
  /\ ~HAS_AMOUNT_TOKEN(c)

\* the amount and the balance the tokens of an amount line write
amountOfLine(ms) == amountWritten(ms[amountIndexOf(Len(ms)) + 1].text)
balanceOfLine(ms) == IF Len(ms) >= 2 THEN Some(amountWritten(ms[Len(ms)].text)) ELSE Null

PairCase ==
  /\ InLoop /\ idx > 1
  /\ pendingCandidate = lines[idx - 1]
  /\ DatedDescription(lines[idx - 1])
  /\ ~isCandidateLine(line)
  /\ OnlyAmountTokens(line)

\* C2: a candidate line with a date and a description and no amount token,
\* followed by a line that is no candidate and is made of amount tokens only,
\* makes one transaction: the candidate line's date, its text after the date
\* token as the description, the amount and the balance of the amount line
C2_PairMakesOneRow ==
  [][PairCase =>
       /\ Len(transactions') = Len(transactions) + 1
       /\ emitted.date = parseDate(dateTokenOf(lines[idx - 1]), datePreference)
       /\ emitted.description = afterDate(lines[idx - 1])
       /\ emitted.amount = amountOfLine(matchAllAmounts(line, 1))
       /\ emitted.balance = balanceOfLine(matchAllAmounts(line, 1))]_vars

\* the text the step extracts a row from: lines 246 and 257
sourceText == IF pendingCandidate # "" /\ ~isCandidateLine(line) THEN combined ELSE line

\* the row has the amount, the balance and the description its tokens give
RowOfTokens(row, remainder, ms) ==
  /\ row.amount = amountOfLine(ms)
  /\ row.balance = balanceOfLine(ms)
  /\ row.description = normalizeLine(Sub(remainder, 1, ms[amountIndexOf(Len(ms)) + 1].index))

\* C3: every extracted row has the second-to-last amount token of the text after
\* the date token as its amount and the last as its balance when there are two or
\* more, the only token as its amount and no balance when there is one, and the
\* text between the date token and the amount's token as its description
C3_AmountAndBalance ==
  [][(InLoop /\ Len(transactions') = Len(transactions) + 1) =>
       RowOfTokens(emitted, afterDate(normalizeLine(sourceText)),
                   matchAllAmounts(afterDate(normalizeLine(sourceText)), 1))]_vars

ValidTransaction(t) ==
  /\ isCalendarDate(t.date)
  /\ t.amount \in Int
  /\ t.description # ""

\* C4: every transaction, in the list as it grows and in the result, has a date
\* of the calendar written YYYY-MM-DD, a finite amount and a description that is
\* not empty, before and after a continuation is appended to it
C4_ValidTransactions ==
  /\ \A k \in 1..Len(transactions) : ValidTransaction(transactions[k])
  /\ result # Null =>
       \A k \in 1..Len(result[1].transactions) :
         ValidTransaction(result[1].transactions[k])

\* a document with a row of 31 April has come back with a transaction that a
\* continuation was appended to
C4_Witness ==
  /\ pc = "done"
  /\ \E k \in 1..Len(lines) : dateTokenOf(lines[k]) = "31/04/2026"
  /\ \E k \in 1..Len(result[1].transactions), j \in 1..Len(lines) :
       /\ isLikelyContinuation(lines[j])
       /\ HasSub(result[1].transactions[k].description, " " \o lines[j])

\* a letter right after a digit: a marker written without a space
GluedMarker(s) == \E i \in 1..Len(s) : Ch(s, i) \in Digit /\ Ch(s, i + 1) \in Letter

\* C5: parseAmount gives the literal's magnitude, currency sign and thousands
\* separators removed, positive when a CR marker is there, whatever else is;
\* else negative when parentheses, a minus sign or a DR marker is there; else
\* with the literal's own sign
C5_SignPrecedence ==
  pc = "done" =>
    /\ value # Null => value = Some(amountWritten(raw))
    /\ ~GluedMarker(raw) => value # Null

\* a literal in parentheses with a minus sign and a CR marker has come back
\* positive
C5_Witness ==
  /\ pc = "done" /\ value # Null
  /\ Contains(raw, "(") /\ Contains(raw, "-") /\ HasSub(raw, "CR")
  /\ value[1] > 0

\* raw is a numeric date of two components, both at most 12, and a year
Ambiguous(d) ==
  /\ Matches(d, Match(d, 1, DMY))
  /\ NumGroup(d, Match(d, 1, DMY), 1) <= 12
  /\ NumGroup(d, Match(d, 1, DMY), 3) <= 12

dayFirstDate(d) ==
  toIsoDate(normalizeYear(NumGroup(d, Match(d, 1, DMY), 5)),
            NumGroup(d, Match(d, 1, DMY), 3), NumGroup(d, Match(d, 1, DMY), 1))

monthFirstDate(d) ==
  toIsoDate(normalizeYear(NumGroup(d, Match(d, 1, DMY), 5)),
            NumGroup(d, Match(d, 1, DMY), 1), NumGroup(d, Match(d, 1, DMY), 3))

\* C6: for a numeric date whose first two components are both at most 12,
\* parseDate reads the components in the order the preference names, and
\* day first when no preference is given
C6_DefaultDayFirst ==
  (pc = "done" /\ Ambiguous(raw)) =>
    value = IF preference = "month-first" THEN monthFirstDate(raw)
            ELSE dayFirstDate(raw)

\* the lines whose date token is numeric with the given component above 12
aboveTwelve(ls, component) ==
  {k \in 1..Len(ls) :
     /\ Matches(dateTokenOf(ls[k]), Match(dateTokenOf(ls[k]), 1, DMY))
     /\ NumGroup(dateTokenOf(ls[k]), Match(dateTokenOf(ls[k]), 1, DMY), component) > 12}

firstAbove == Cardinality(aboveTwelve(lines, 1))
secondAbove == Cardinality(aboveTwelve(lines, 3))

\* detectDatePreference has just returned
Detected == pc = "loop" /\ idx = 1

\* C7: the preference detected is day-first exactly when more lines have a
\* first component above 12 than have a second component above 12, each
\* counted on its own, month-first exactly when fewer have, and unspecified
\* when as many have, none among them
C7_DetectorTallies ==
  Detected =>
    datePreference = IF firstAbove > secondAbove THEN "day-first"
                     ELSE IF secondAbove > firstAbove THEN "month-first"
                     ELSE "unspecified"

\* the preference is detected for a document with a line whose components are
\* both above 12 and a line with only the second above 12
C7_Witness ==
  /\ Detected
  /\ aboveTwelve(lines, 1) \cap aboveTwelve(lines, 3) # {}
  /\ aboveTwelve(lines, 3) \ aboveTwelve(lines, 1) # {}
  /\ datePreference = "month-first"

\* C8: parseDate gives back unchanged every date of the calendar written
\* YYYY-MM-DD, under every preference
C8_IsoRoundTrip == (pc = "done" /\ isCalendarDate(raw)) => value = raw

\* a header line written without spaces
HeaderOnly == "DateDescriptionAmountBalance"

\* C9: a header line of keywords written together makes no transaction and is
\* no continuation: no transaction is added, no description changes and the
\* line is not merged into a pending candidate
C9_GluedHeaderDiscarded ==
  [][(InLoop /\ line = HeaderOnly) =>
       /\ transactions' = transactions
       /\ pendingCandidate' \in {"", pendingCandidate}]_vars

\* C10: a metadata line is discarded: it is not counted as a candidate, no
\* transaction is added and no description changes, and it is not merged into
\* a pending candidate
C10_MetadataDiscarded ==
  [][(InLoop /\ METADATA_LINE(line)) =>
       /\ candidateRows' = candidateRows
       /\ transactions' = transactions
       /\ pendingCandidate' \in {"", pendingCandidate}]_vars

\* C11: a line whose date token is followed by the merchant text without a
\* separator extracts with the date of that token and a description that is
\* the merchant text, no character moved from one to the other
C11_GluedDateBounded ==
  pc = "done" =>
    \A d \in DateTokens, b \in Merchants, a \in AmountTexts :
      raw = d \o b \o " " \o a =>
        /\ value # Null
        /\ value[1].date = parseDate(d, preference)
        /\ value[1].description = b

\* the hundredth nearest to num / den, a half rounded up
roundHalfUp(num, den) == (2 * num + den) \div (2 * den)

\* C12: the returned confidence lies in [0, 1]; it is 0 without candidate rows
\* and otherwise 0.7 * validRows / candidateRows + 0.3 * min(1, validRows / 8)
\* rounded to two decimals
C12_ConfidenceRounded ==
  pc = "done" =>
    /\ result[1].confidence \in 0..100
    /\ result[1].confidence =
         IF candidateRows = 0 THEN 0
         ELSE roundHalfUp(70 * result[1].debug.validRows * 8
                            + 30 * sizeFactor8(result[1].debug.validRows)
                                 * candidateRows,
                          8 * candidateRows)

\* every candidate row came out as a valid transaction, three or more of them
AllValidThreeOrMore ==
  /\ pc = "done"
  /\ result[1].debug.validRows = candidateRows
  /\ Len(result[1].transactions) >= 3
  /\ result[1].debug.validRows >= 3

\* C13: when every candidate row is emitted as a valid transaction and three
\* or more transactions are emitted, confidence is at least 0.8 and there is
\* no warning
C13_CleanDocument ==
  AllValidThreeOrMore =>
    /\ result[1].confidence >= 80
    /\ result[1].warnings = <<>>

C13_Witness ==
  /\ AllValidThreeOrMore
  /\ result[1].confidence >= 80

\* a finished document with candidate rows of which fewer than 80% are valid
BelowEightyPercent ==
  /\ pc = "done"
  /\ candidateRows >= 1
  /\ 10 * result[1].debug.validRows < 8 * candidateRows

\* C14: a document with at least one candidate row and a ratio validRows /
\* candidateRows below 0.8 carries the low-parse-reliability warning; with
\* candidates and no valid row the warnings list is not empty
C14_LowRatioWarned ==
  BelowEightyPercent =>
    /\ \E k \in 1..Len(result[1].warnings) :
         result[1].warnings[k] = LowReliabilityWarning
    /\ result[1].warnings # <<>>

\* a finished document of which exactly one or two valid rows came out
OneOrTwoValid ==
  /\ pc = "done"
  /\ result[1].debug.validRows \in {1, 2}

\* C15: when exactly one or two valid rows are emitted, the result carries
\* the few-rows warning and its rounded confidence is above 0, however many
\* candidate rows there were
C15_WeakSignal ==
  OneOrTwoValid =>
    /\ \E k \in 1..Len(result[1].warnings) :
         result[1].warnings[k] = FewRowsWarning
    /\ result[1].confidence > 0

C15_Witness ==
  /\ OneOrTwoValid
  /\ candidateRows = MaxCandidates
  /\ result[1].confidence > 0

\* the text is the lines ls written with the line ending sep
WrittenWith(ls, sep) == text = join(ls, sep)

\* C16: whichever line ending separates the lines of the input (LF, CRLF or
\* CR alone), parseStatementText works on the same sequence of lines
C16_AnyLineEnding ==
  pc # "start" =>
    \A ls \in EndingLines, sep \in LineEndings :
      WrittenWith(ls, sep) => lines = normalizedLines(ls)

\* C17: parseStatementText keeps no state between calls: the regex cursor of
\* the module is where it was when the module was loaded, and a call returns
\* for its text what every earlier call returned for the same text, whatever
\* calls came in between
C17_NoSharedState ==
  /\ lastIndex = 0
  /\ pc = "done" =>
       \A k \in 1..Len(returned) :
         returned[k].text = text => returned[k].result = result[1]

C17_Witness ==
  /\ pc = "done"
  /\ Len(returned) = MaxCalls
  /\ returned[1].text = text
  /\ returned[2].text # text
  /\ returned[2].result.transactions # <<>>
  /\ result[1].transactions # <<>>
  /\ returned[1].result = result[1]

\* the request passes the checks of lines 15-19
Accepted == methodAllowed(request) /\ keyValid(request)

\* the outcomes of an accepted request: 200 with the parse result, or 500
\* with ok false, no transaction and confidence 0
Outcome(r) ==
  \/ /\ r.status = 200
     /\ r.ok
     /\ pc = "done"
     /\ r.transactions = result[1].transactions
     /\ r.confidence = result[1].confidence
  \/ /\ r.status = 500
     /\ ~r.ok
     /\ r.transactions = <<>>
     /\ r.confidence = 0

\* C18: for a request whose key passes validation the handler attempts the
\* delete exactly once, after the response (200 with the parse result, or
\* 500 with ok false, no transaction and confidence 0) is determined,
\* whether download, extraction and parsing succeeded or failed, and the
\* delete, failing or not, leaves the response as it was
C18_DeleteOnceAfterResponse ==
  [][/\ deletes' # deletes =>
         /\ deletes = 0 /\ deletes' = 1
         /\ Accepted
         /\ response # Null
         /\ Outcome(response[1])
         /\ response' = response
     /\ (hpc' = "returned" /\ Accepted) =>
         /\ deletes' = 1
         /\ Outcome(response'[1])
     /\ (hpc' \in {"download", "extract", "parse"}) =>
         (deletes' = 0 /\ response' = Null)]_vars

C18_Witness ==
  /\ hpc = "returned"
  /\ Accepted
  /\ deletes = 1
  /\ stored
  /\ response[1].status = 200
  /\ response[1].transactions # <<>>

\* a column-header line naming debit, credit and balance columns
DebitCreditBalanceHeader(l) ==
  /\ HasSub(toLowerCase(l), "debit")
  /\ HasSub(toLowerCase(l), "credit")
  /\ HasSub(toLowerCase(l), "balance")

\* C19: when the text has a column-header line naming debit, credit and
\* balance columns, the debug mapping of the result reports
\* hasDebitCreditBalanceHeader = true
C19_HeaderReported ==
  (pc = "done" /\ \E k \in 1..Len(lines) : DebitCreditBalanceHeader(lines[k])) =>
    /\ "hasDebitCreditBalanceHeader" \in DOMAIN result[1].debug
    /\ result[1].debug.hasDebitCreditBalanceHeader = TRUE

\* a turn of the loop that starts with a line held pending
PendingStep ==
  /\ pc = "loop"
  /\ idx' = idx + 1
  /\ pendingCandidate # ""

\* the held line and the new line were merged, m the extraction of the merged
\* text: on success one transaction more and nothing pending; on failure no
\* transaction, the merge pending if the new line is a continuation, nothing
\* pending otherwise
mergedOutcome(m) ==
  IF m # Null
  THEN /\ transactions' = Append(transactions, m[1])
       /\ pendingCandidate' = ""
  ELSE /\ transactions' = transactions
       /\ pendingCandidate' = IF isLikelyContinuation(line)
                              THEN pendingCandidate \o " " \o line ELSE ""

\* the new line was examined as a fresh candidate, p its extraction: on
\* success its transaction and nothing pending, on failure it is the pending
\* line
freshOutcome(p) ==
  IF p # Null
  THEN /\ transactions' = Append(transactions, p[1])
       /\ pendingCandidate' = ""
  ELSE /\ transactions' = transactions
       /\ pendingCandidate' = line

\* C20: with a line pending, every next line, a candidate included, is
\* concatenated to the held line with a single space and extraction is tried
\* on the merged text; success emits one transaction and leaves nothing
\* pending; on failure the merge stays pending only if the new line is a
\* continuation, otherwise nothing is pending and the new line neither yields
\* a transaction nor becomes the pending line
C20_MergeEveryLine ==
  [][PendingStep =>
       mergedOutcome(parseTransactionLine(pendingCandidate \o " " \o line,
                                          datePreference))]_vars

\* C20 amended: with a line pending, a next line that is not a candidate is
\* merged as above; a next line that is a candidate is not merged but
\* examined as a fresh candidate, the held line dropped
C20_MergeUnlessCandidate ==
  [][PendingStep =>
       IF isCandidateLine(line)
       THEN freshOutcome(parseTransactionLine(line, datePreference))
       ELSE mergedOutcome(parseTransactionLine(pendingCandidate \o " " \o line,
                                               datePreference))]_vars

\* a held line dropped for the candidate after it, and that candidate
\* resolved by the merge with the line after it
C20_Witness ==
  /\ pc = "loop"
  /\ lines = <<"31/04/2026 Bad 1.00", "15/02/2026VISA-OPENAI",
               "-$32.13$12,424.08">>
  /\ idx = 4
  /\ candidateRows = 2
  /\ pendingCandidate = ""
  /\ Len(transactions) = 1
  /\ transactions[1].description = "VISA-OPENAI"

\* warning w is among the warnings ws
Warned(ws, w) == \E k \in 1..Len(ws) : ws[k] = w

\* the call that just returned left a candidate pending, and call k was for
\* the same document without that row
WithoutPending(k) ==
  /\ pc = "done"
  /\ pendingCandidate # ""
  /\ k \in 1..Len(returned)
  /\ returned[k].text \o "\n" \o pendingCandidate = text

SameRow(k) ==
  /\ transactions'[k].date = transactions[k].date
  /\ transactions'[k].amount = transactions[k].amount
  /\ transactions'[k].balance = transactions[k].balance

\* the step appended ' ' + the line, a continuation, to the description of
\* transaction k, the most recently emitted one
ContinuationAppended(k) ==
  /\ k = Len(transactions)
  /\ Len(transactions') = Len(transactions)
  /\ pc = "loop"
  /\ isLikelyContinuation(line)
  /\ transactions'[k].description = transactions[k].description \o " " \o line

\* C22: during a parse call the transaction list is append-only: no emitted
\* transaction is removed or replaced, its date, amount and balance never
\* change, and its description changes only by ' ' + a continuation line
\* appended while it is the most recently emitted one
C22_AppendOnly ==
  [][/\ Len(transactions') >= Len(transactions)
     /\ \A k \in 1..Len(transactions) :
          /\ SameRow(k)
          /\ \/ transactions'[k].description = transactions[k].description
             \/ ContinuationAppended(k)]_vars

C22_Witness ==
  /\ Len(transactions) = 2
  /\ transactions[1].description = "Shop"
  /\ transactions[2].description = "Fuel WEEKLY AUTO MOVE"

\* the date a candidate line's date token stands for, "" for none
dateOfLine(l) == parseDate(dateTokenOf(l), datePreference)

\* no two candidate lines of the document carry the same date, so that the
\* date of a transaction tells the candidate line it comes from
DistinctDates ==
  \A i \in 1..Len(lines), j \in 1..Len(lines) :
    (i # j /\ isCandidateLine(lines[i]) /\ isCandidateLine(lines[j]))
      => dateOfLine(lines[i]) # dateOfLine(lines[j])

\* line i is the candidate line that transaction t comes from
CandidateOf(t, i) == isCandidateLine(lines[i]) /\ dateOfLine(lines[i]) = t.date

\* C23: transactions are returned in document order: of two emitted
\* transactions the one earlier in the list comes from the candidate line
\* that is earlier in the input
C23_DocumentOrder ==
  (pc = "done" /\ DistinctDates) =>
    \A k \in 1..Len(result[1].transactions), m \in 1..Len(result[1].transactions) :
      k < m =>
        \E i \in 1..Len(lines), j \in 1..Len(lines) :
          /\ CandidateOf(result[1].transactions[k], i)
          /\ CandidateOf(result[1].transactions[m], j)
          /\ i < j

\* a row extracted on its own, then a row resolved by a merge
C23_Witness ==
  /\ pc = "done"
  /\ DistinctDates
  /\ Len(lines) = 3
  /\ Len(result[1].transactions) = 2
  /\ result[1].transactions[1].date = "2026-01-15"
  /\ result[1].transactions[2].date = "2026-02-15"

\* C24: in every ParseResult validRows = parsedRows = the number of returned
\* transactions
C24_CountersAgree ==
  pc = "done" =>
    /\ result[1].debug.validRows = result[1].debug.parsedRows
    /\ result[1].debug.parsedRows = Len(result[1].transactions)

\* a document of which two rows came out and one did not
C24_Witness ==
  /\ pc = "done"
  /\ result[1].debug.candidateRows = 3
  /\ result[1].debug.validRows = 2
  /\ Len(result[1].transactions) = 2

\* transaction t comes from candidate line i, whose date token can be read
\* day first or month first
AmbiguousSource(t, i) ==
  /\ isCandidateLine(lines[i])
  /\ HasSub(afterDate(lines[i]), t.description)
  /\ Ambiguous(dateTokenOf(lines[i]))

DayFirstRow(t) ==
  \E i \in 1..Len(lines) :
    AmbiguousSource(t, i) /\ t.date = dayFirstDate(dateTokenOf(lines[i]))

MonthFirstRow(t) ==
  \E i \in 1..Len(lines) :
    AmbiguousSource(t, i) /\ t.date = monthFirstDate(dateTokenOf(lines[i]))

\* C25: the date-order preference is the one computed before the first row
\* is extracted and does not change; every emitted transaction whose date is
\* numeric with both leading components at most 12 is resolved with it, and
\* no two such rows of a document are resolved with different orders
C25_OnePreference ==
  pc # "start" =>
    /\ datePreference = detectDatePreference(lines)
    /\ \A k \in 1..Len(transactions) :
         /\ datePreference = "day-first" => ~MonthFirstRow(transactions[k])
         /\ datePreference = "month-first" => ~DayFirstRow(transactions[k])
    /\ ~\E k \in 1..Len(transactions), m \in 1..Len(transactions) :
          DayFirstRow(transactions[k]) /\ MonthFirstRow(transactions[m])

\* a day-first document of which two ambiguous rows came out
C25_Witness ==
  /\ pc = "done"
  /\ datePreference = "day-first"
  /\ Len(transactions) = 3
  /\ DayFirstRow(transactions[1])
  /\ DayFirstRow(transactions[2])
  /\ transactions[1].description # transactions[2].description

\* C26: after any prefix of the lines the number of emitted transactions is
\* at most the number of candidate lines counted so far, a line still
\* pending being one of these and not yet a transaction
C26_AtMostOnePerCandidate ==
  /\ Len(transactions) + (IF pendingCandidate # "" /\ pc = "loop" THEN 1 ELSE 0)
       <= candidateRows
  /\ pc = "done" => result[1].debug.validRows <= result[1].debug.candidateRows

\* two rows out of two candidates and three lines, one of them by a merge
C26_Witness ==
  /\ pc = "done"
  /\ candidateRows = 2
  /\ Len(transactions) = 2
  /\ Len(lines) = 3
  /\ transactions[2].description = "VISA-OPENAI"

\* the whole of s is one match of AMOUNT_TOKEN
IsAmountToken(s) == Len(s) > 0 /\ AmountTokenLen(s, 1) = Len(s)

\* C27: every token that AMOUNT_TOKEN recognizes, a CR or DR suffix written
\* with no space before it included, is accepted by parseAmount with a
\* non-null result
C27_TokensAccepted ==
  (pc = "done" /\ IsAmountToken(raw)) => value # Null

\* C28: no emitted transaction's description contains a table-header keyword
\* (date, description, amount, balance, debit, credit) as a whole word,
\* neither when it is emitted nor after continuation appends
C28_NoHeaderWords ==
  /\ \A k \in 1..Len(transactions) : ~HEADER_LINE(transactions[k].description)
  /\ pc = "done" =>
       \A k \in 1..Len(result[1].transactions) :
         ~HEADER_LINE(result[1].transactions[k].description)

\* a row that a line of glued header words was appended to
C28_Witness ==
  /\ pc = "done"
  /\ Len(lines) = 3
  /\ HEADER_LINE(lines[1])
  /\ result[1].transactions[1].description = "Shop DateDescriptionAmountBalance"

\* the loop is at a line that is neither a candidate nor a continuation, with
\* no candidate pending
IdleAtOtherLine ==
  /\ InLoop
  /\ pendingCandidate = ""
  /\ ~isCandidateLine(line)
  /\ ~isLikelyContinuation(line)

\* C29: while no candidate is pending, a line that is neither a candidate nor
\* a continuation changes nothing: no transaction is added, no description
\* is modified and no candidate becomes pending
C29_OtherLineIgnored ==
  [][IdleAtOtherLine =>
       /\ transactions' = transactions
       /\ pendingCandidate' = ""
       /\ candidateRows' = candidateRows]_vars

\* a row followed by a header line and a line of amounts without a date
C29_Witness ==
  /\ pc = "done"
  /\ lines = <<"2026-01-15 Shop -54.23 2,450.77",
               "Date Description Amount Balance", "-$32.13$12,424.08">>
  /\ Len(result[1].transactions) = 1
  /\ result[1].transactions[1].description = "Shop"
  /\ pendingCandidate = ""

\* C30: a line processed while a candidate is pending leaves every transaction
\* already emitted as it was; a description grows only in a step that started
\* idle with at least one transaction, and that step holds nothing; a step
\* that emits a row uses up the pending text; so a line's text goes to at
\* most one transaction.
DescriptionGrew ==
  \E k \in 1..Len(transactions) :
    /\ k <= Len(transactions')
    /\ transactions'[k].description # transactions[k].description
RowEmitted == Len(transactions') = Len(transactions) + 1
C30_NoAppendWhilePending ==
  [][InLoop =>
       /\ pendingCandidate # "" =>
            /\ Len(transactions') >= Len(transactions)
            /\ \A k \in 1..Len(transactions) : transactions'[k] = transactions[k]
       /\ DescriptionGrew =>
            /\ pendingCandidate = ""
            /\ Len(transactions) > 0
            /\ Len(transactions') = Len(transactions)
            /\ pendingCandidate' = ""
       /\ Len(transactions') <= Len(transactions) + 1
       /\ RowEmitted =>
            /\ pendingCandidate' = ""
            /\ \A k \in 1..Len(transactions) : transactions'[k] = transactions[k]]_vars

\* C30 witness: "Shop" is emitted, "15/02/2026VISA-OPENAI" is held, the
\* continuation "WEEKLY AUTO MOVE" arrives while it is held and joins the
\* pending text, and the row "Shop" is returned untouched
C30_Witness ==
  /\ pc = "done"
  /\ lines = <<"2026-01-15 Shop -54.23 2,450.77", "15/02/2026VISA-OPENAI",
               "WEEKLY AUTO MOVE">>
  /\ Len(result[1].transactions) = 1
  /\ result[1].transactions[1].description = "Shop"
  /\ pendingCandidate = "15/02/2026VISA-OPENAI WEEKLY AUTO MOVE"
====
